---- MODULE Spec2Model ----
(***************************************************************************)
(* Model of video_to_mc.py: video -> PNG frames -> one mcfunction per      *)
(* frame -> datapack directory -> zip.                                     *)
(*                                                                         *)
(* File names are kept structured instead of as strings so that the        *)
(* formatting done by the program (%06d, {i}) and the sorting of file      *)
(* names are computed, not assumed: a path segment is a triple             *)
(* <<stem, digits, ext>>, e.g. videopack_000001.png is                     *)
(* <<"videopack", <<0,0,0,0,0,1>>, ".png">> (the "_" before the digits is  *)
(* implicit).  A path is a sequence of segments.                           *)
(***************************************************************************)
EXTENDS Integers, Sequences, FiniteSets, Bags, TLC

VARIABLES pc, argv, datapack_name, probed, target, fs, zips, pngs, i, todo,
          exit, stdout, runs

vars == <<pc, argv, datapack_name, probed, target, fs, zips, pngs, i, todo,
          exit, stdout, runs>>

(***************************************************************************)
(* Bounds of the model.                                                    *)
(***************************************************************************)
MaxFrames == 3
MaxRuns == 2
MaxW == 40
MaxH == 120

(***************************************************************************)
(* Configuration constants of the program.                                 *)
(***************************************************************************)
MAX_WIDTH == 640
MAX_COLORS == 256
LIFETIME_TICK == 2
DEFAULT_DATAPACK_NAME == "videopack"
PadWidth == 6
PackFormat == 6
FallbackW == 1920
FallbackH == 1080
MantBits == 53
LimbBits == 10
DivLimbCount == 8
IntWidth == 20

(***************************************************************************)
(* IEEE-754 binary64 arithmetic, as Python's float: a double is            *)
(* [m |-> 53 bits, most significant first, e |-> exponent], value m * 2^e. *)
(* Long division and multiplication work on limbs of LimbBits bits, which  *)
(* keeps every intermediate product below 2^31 for operands below 2^20.    *)
(***************************************************************************)
\* the low `width` bits of n, most significant first
FixedBits(n, width) == [k \in 1..width |-> (n \div (2 ^ (width - k))) % 2]

AnyOne(b) == \E k \in 1..Len(b) : b[k] = 1

StripZeros(b) ==
  IF ~AnyOne(b) THEN <<>>
  ELSE LET first == CHOOSE k \in 1..Len(b) :
                      b[k] = 1 /\ \A j \in 1..(k - 1) : b[j] = 0
       IN SubSeq(b, first, Len(b))

RECURSIVE BitsToInt(_)
BitsToInt(b) ==
  IF b = <<>> THEN 0
  ELSE 2 * BitsToInt(SubSeq(b, 1, Len(b) - 1)) + b[Len(b)]

\* b + 1 on a bit sequence
IncBits(b) ==
  IF \A k \in 1..Len(b) : b[k] = 1
    THEN <<1>> \o [k \in 1..Len(b) |-> 0]
    ELSE LET last == CHOOSE k \in 1..Len(b) :
                       b[k] = 0 /\ \A j \in (k + 1)..Len(b) : b[j] = 1
         IN [k \in 1..Len(b) |-> IF k < last THEN b[k]
                                 ELSE IF k = last THEN 1 ELSE 0]

\* Round a positive exact value bits * 2^e (with a sticky flag for nonzero
\* digits below the last bit) to 53 bits, ties to even.
RoundNearestEven(bits, e, sticky) ==
  IF Len(bits) <= MantBits
    THEN [m |-> bits \o [k \in 1..(MantBits - Len(bits)) |-> 0],
          e |-> e - (MantBits - Len(bits))]
    ELSE LET keep  == SubSeq(bits, 1, MantBits)
             guard == bits[MantBits + 1]
             rest  == SubSeq(bits, MantBits + 2, Len(bits))
             e2    == e + (Len(bits) - MantBits)
             up    == guard = 1 /\ (sticky \/ AnyOne(rest) \/ keep[MantBits] = 1)
             inc   == IncBits(keep)
         IN IF ~up THEN [m |-> keep, e |-> e2]
            ELSE IF Len(inc) = MantBits THEN [m |-> inc, e |-> e2]
            ELSE [m |-> SubSeq(inc, 1, MantBits), e |-> e2 + 1]

\* Long division of r / b (r < b): the next `count` quotient limbs and the
\* remainder left after them.
RECURSIVE DivLimbs(_, _, _)
DivLimbs(r, b, count) ==
  IF count = 0 THEN [limbs |-> <<>>, rem |-> r]
  ELSE LET t    == r * (2 ^ LimbBits)
           rest == DivLimbs(t % b, b, count - 1)
       IN [limbs |-> <<t \div b>> \o rest.limbs, rem |-> rest.rem]

LimbsToBits(limbs) ==
  [k \in 1..(Len(limbs) * LimbBits) |->
     FixedBits(limbs[((k - 1) \div LimbBits) + 1], LimbBits)[((k - 1) % LimbBits) + 1]]

\* a / b for Python ints 0 < a, b < 2^20: true division, correctly rounded.
FloatDiv(a, b) ==
  LET d    == DivLimbs(a % b, b, DivLimbCount)
      bits == StripZeros(FixedBits(a \div b, IntWidth) \o LimbsToBits(d.limbs))
  IN RoundNearestEven(bits, -(DivLimbCount * LimbBits), d.rem # 0)

\* limbs (least significant last) times k, with the carry out in front
RECURSIVE MulLimbs(_, _, _)
MulLimbs(limbs, k, carry) ==
  IF limbs = <<>> THEN <<carry>>
  ELSE LET t == limbs[Len(limbs)] * k + carry
       IN Append(MulLimbs(SubSeq(limbs, 1, Len(limbs) - 1), k, t \div (2 ^ LimbBits)),
                 t % (2 ^ LimbBits))

BitsToLimbs(bits) ==
  LET count  == (Len(bits) + LimbBits - 1) \div LimbBits
      padded == [k \in 1..(count * LimbBits - Len(bits)) |-> 0] \o bits
  IN [j \in 1..count |->
        BitsToInt(SubSeq(padded, (j - 1) * LimbBits + 1, j * LimbBits))]

\* n * x for a Python int 0 < n < 2^20 and a float x > 0: the exact
\* product, rounded.
FloatMulInt(n, x) ==
  LET prod == MulLimbs(BitsToLimbs(x.m), n, 0)
      bits == StripZeros(FixedBits(prod[1], IntWidth)
                           \o LimbsToBits(SubSeq(prod, 2, Len(prod))))
  IN RoundNearestEven(bits, x.e, FALSE)

\* int(round(x)) in place of int(x): nearest integer, halves upward
FloatToIntRounded(x) ==
  IF x.e >= 0 THEN BitsToInt(x.m \o [k \in 1..x.e |-> 0])
  ELSE IF MantBits + x.e < 0 THEN 0
  ELSE BitsToInt(SubSeq(x.m, 1, MantBits + x.e)) + x.m[MantBits + x.e + 1]

\* int(x) for a float x > 0: truncation toward zero.
FloatToInt(x) ==
  IF x.e >= 0 THEN BitsToInt(x.m \o [k \in 1..x.e |-> 0])
  ELSE IF MantBits + x.e <= 0 THEN 0
  ELSE BitsToInt(SubSeq(x.m, 1, MantBits + x.e))

Max(a, b) == IF a >= b THEN a ELSE b

(***************************************************************************)
(* extract_frames_and_scale, lines 137-143: the scale computation.         *)
(* The result is the pair put into the scale filter, or the exception.     *)
(***************************************************************************)
GuardResolution(vw, vh) ==
  IF vw <= 0 \/ vh <= 0 THEN <<FallbackW, FallbackH>> ELSE <<vw, vh>>

TargetHeight(vw, vh) == Max(1, FloatToInt(FloatMulInt(vh, FloatDiv(MAX_WIDTH, vw))))

ComputeScale(res) ==
  LET g == GuardResolution(res[1], res[2])
  IN IF g[1] = 0 THEN [err |-> "ZeroDivisionError", w |-> 0, h |-> 0]
     ELSE [err |-> "", w |-> MAX_WIDTH, h |-> TargetHeight(g[1], g[2])]

NoScale == [err |-> "", w |-> 0, h |-> 0]

(***************************************************************************)
(* File names and paths.                                                   *)
(***************************************************************************)
Seg(stem, digits, ext) == <<stem, digits, ext>>
NoSeg == Seg("", <<>>, "")
DirSeg(name) == Seg(name, <<>>, "")

\* str(n) for n >= 0, as decimal digits.
RECURSIVE Digits(_)
Digits(n) == IF n < 10 THEN <<n>> ELSE Append(Digits(n \div 10), n % 10)

\* '%06d' % n: zero padded to at least PadWidth digits.
Pad(n) ==
  LET d == Digits(n)
  IN IF Len(d) >= PadWidth THEN d ELSE [k \in 1..(PadWidth - Len(d)) |-> 0] \o d

FramesDir == <<DirSeg("frames")>>
ImgDir == <<DirSeg("particleImages")>>
DpRoot(name) == <<DirSeg(name)>>
FuncDir(name) ==
  <<DirSeg(name), DirSeg("data"), DirSeg(name), DirSeg("functions")>>

\* Name the decoder gives to its k-th output image (image2 numbering from 1).
FrameName(k) == Seg(DEFAULT_DATAPACK_NAME, Pad(k), ".png")
\* Name of the file the i-th frame script is written to.
ScriptName(idx) == Seg(DEFAULT_DATAPACK_NAME, Digits(idx), ".mcfunction")
\* Function name frame_<i> used in the generated commands.
FrameFunc(idx) == Seg("frame", Digits(idx), "")

IsPrefix(r, p) == Len(r) <= Len(p) /\ SubSeq(p, 1, Len(r)) = r
Basename(p) == p[Len(p)]
\* the absolute name in place of the relative one
RelPathKeepRoot(p, root) == p
RelPath(p, root) == SubSeq(p, Len(root) + 1, Len(p))

(***************************************************************************)
(* File system: a function from paths to nodes.                            *)
(***************************************************************************)
Dir == [kind |-> "dir", data |-> <<>>]
File(data) == [kind |-> "file", data |-> data]
EmptyFS == [p \in {} |-> Dir]

Put(f, p, node) == [q \in DOMAIN f \cup {p} |-> IF q = p THEN node ELSE f[q]]

\* shutil.rmtree(root) when it exists.
RmTree(f, root) == [q \in {p \in DOMAIN f : ~IsPrefix(root, p)} |-> f[q]]

\* os.makedirs(path, exist_ok=True)
MakeDirs(f, path) ==
  [q \in DOMAIN f \cup {SubSeq(path, 1, k) : k \in 1..Len(path)} |->
     IF q \in DOMAIN f THEN f[q] ELSE Dir]

\* open(p, 'a'): create, or keep what is there
OpenForAppend(f, p) == IF p \in DOMAIN f THEN f ELSE Put(f, p, File(<<>>))

\* open(p, 'w'): create or truncate.
OpenForWrite(f, p) == Put(f, p, File(<<>>))
\* write to an open file: appended at the file position.
WriteData(f, p, data) == Put(f, p, File(f[p].data \o data))

\* glob.glob(os.path.join(dir, '*' + ext))
Glob(f, dir, ext) ==
  {p \in DOMAIN f : /\ Len(p) = Len(dir) + 1
                    /\ IsPrefix(dir, p)
                    /\ Basename(p)[3] = ext}

\* every file below root, as os.walk enumerates them
Walk(f, root) ==
  {p \in DOMAIN f : IsPrefix(root, p) /\ Len(p) > Len(root) /\ f[p].kind = "file"}

\* String order of two names that differ in their digits only.
RECURSIVE LexLeq(_, _)
LexLeq(a, b) ==
  IF a = <<>> THEN TRUE
  ELSE IF b = <<>> THEN FALSE
  ELSE IF a[1] < b[1] THEN TRUE
  ELSE IF a[1] > b[1] THEN FALSE
  ELSE LexLeq(Tail(a), Tail(b))

PathLeq(p, q) == LexLeq(Basename(p)[2], Basename(q)[2])

\* the listing taken in descending order
RECURSIVE SortedDescending(_)
SortedDescending(S) ==
  IF S = {} THEN <<>>
  ELSE LET m == CHOOSE x \in S : \A y \in S : PathLeq(y, x)
       IN <<m>> \o SortedDescending(S \ {m})

\* sorted(set of paths)
RECURSIVE Sorted(_)
Sorted(S) ==
  IF S = {} THEN <<>>
  ELSE LET m == CHOOSE x \in S : \A y \in S : PathLeq(x, y)
       IN <<m>> \o Sorted(S \ {m})

(***************************************************************************)
(* File contents: a sequence of lines, each a record of the same shape.    *)
(***************************************************************************)
Line(op, ns, name, nums) == [op |-> op, ns |-> ns, name |-> name, nums |-> nums]

\* an image: k-th frame of the video with n frames, at the given size
PngData(n, k, scale, mode) == <<Line("png", mode, NoSeg, <<n, k, scale.w, scale.h>>)>>
\* Image.open(p).convert('RGBA'), quantized only if MAX_COLORS < 256
ConvertRGBA(data) ==
  [k \in 1..Len(data) |->
     Line(data[k].op,
          IF MAX_COLORS # 0 /\ MAX_COLORS < 256 THEN "RGBA-quantized" ELSE "RGBA",
          data[k].name, data[k].nums)]

MetaData(name) == <<Line("pack", name, NoSeg, <<PackFormat>>)>>
MainData(name) == <<Line("function", name, FrameFunc(0), <<>>)>>
RenderLine(image) == Line("particleex image", "", image, <<LIFETIME_TICK>>)
ScheduleLine(name, idx) == Line("schedule function", name, FrameFunc(idx), <<1>>)
\* the scheduling line written for the last frame as well
ScriptDataAlwaysSchedule(name, image, idx, count) ==
  <<RenderLine(image)>> \o
  (IF idx + 1 <= count THEN <<ScheduleLine(name, idx + 1)>> ELSE <<>>)

ScriptData(name, image, idx, count) ==
  <<RenderLine(image)>> \o
  (IF idx + 1 < count THEN <<ScheduleLine(name, idx + 1)>> ELSE <<>>)

(***************************************************************************)
(* Archives <name>.zip in the working directory.                           *)
(***************************************************************************)
NoZip == [exists |-> FALSE, entries |-> EmptyBag]
NewZip == [exists |-> TRUE, entries |-> EmptyBag]
Entry(arcname, data) == [arcname |-> arcname, data |-> data]
ForeignEntry == Entry(<<Seg("old", <<>>, ".txt")>>, <<>>)
ForeignZip == [exists |-> TRUE, entries |-> SetToBag({ForeignEntry})]
ZipAdd(z, e) == [exists |-> TRUE, entries |-> z.entries (+) SetToBag({e})]

(***************************************************************************)
(* Inputs.                                                                 *)
(***************************************************************************)
ExplicitNames == {"mypack"}
Namespaces == ExplicitNames \cup {DEFAULT_DATAPACK_NAME}
Videos == {[isfile |-> TRUE, n |-> n] : n \in 0..MaxFrames}
            \cup {[isfile |-> FALSE, n |-> 0]}
\* sys.argv[1:]
Args == {<<>>} \cup {<<v>> : v \in Videos}
          \cup {<<v, name>> : v \in Videos, name \in ExplicitNames}

SampleRes == <<<<1920, 1080>>, <<0, 1080>>, <<39, 117>>, <<1000, 1001>>>>
\* probe_video_resolution: the size the decoder reports for this video
ProbeVideo(v) == SampleRes[(v.n % Len(SampleRes)) + 1]

Resolutions ==
  ((0..MaxW) \X (0..MaxH))
    \cup {<<1920, 1080>>, <<0, 1080>>, <<1920, 0>>, <<1280, 720>>,
          <<1000, 1001>>, <<1280, 1>>, <<31360, 98>>, <<4096, 2160>>}

(***************************************************************************)
(* State after construction: no process has run, the working directory is  *)
(* empty, and archives of the pack names may already exist.                *)
(***************************************************************************)
Locals ==
  /\ datapack_name = ""
  /\ probed = <<0, 0>>
  /\ target = NoScale
  /\ pngs = <<>>
  /\ i = 0
  /\ todo = {}

Init ==
  /\ pc = "idle"
  /\ argv = <<>>
  /\ Locals
  /\ fs = EmptyFS
  /\ \E z \in {NoZip, ForeignZip} : zips = [name \in Namespaces |-> z]
  /\ exit = "none"
  /\ stdout = <<>>
  /\ runs = 0

Running == pc \notin {"idle", "exited"}

\* An uncaught exception: traceback, exit status 1.
Raise ==
  /\ pc' = "exited"
  /\ exit' = "1"
  /\ stdout' = Append(stdout, "Traceback")

\* main, lines 226-235, for the command line args.
MainBody(args) ==
  /\ argv' = args
  /\ runs' = runs + 1
  /\ probed' = <<0, 0>>
  /\ target' = NoScale
  /\ pngs' = <<>>
  /\ i' = 0
  /\ todo' = {}
  /\ IF Len(args) < 1
       THEN pc' = "exited" /\ exit' = "1" /\ stdout' = <<"usage">>
                           /\ datapack_name' = ""
       ELSE IF ~args[1].isfile
         THEN pc' = "exited" /\ exit' = "1" /\ stdout' = <<"video missing">>
                             /\ datapack_name' = ""
         ELSE /\ pc' = "get_ffmpeg"
              /\ exit' = "running"
              /\ stdout' = <<>>
              /\ datapack_name' = IF Len(args) >= 2 THEN args[2]
                                  ELSE DEFAULT_DATAPACK_NAME
  /\ UNCHANGED <<fs, zips>>

Main ==
  /\ ~Running
  /\ runs < MaxRuns
  /\ \E args \in Args : MainBody(args)

\* get_ffmpeg, lines 62-108: returns an executable ...
GetFfmpegOk ==
  /\ pc = "get_ffmpeg"
  /\ pc' = "rmtree"
  /\ stdout' = Append(stdout, "ffmpeg")
  /\ UNCHANGED <<argv, datapack_name, probed, target, fs, zips, pngs, i, todo,
                 exit, runs>>

\* ... or raises RuntimeError (lines 84, 108).
GetFfmpegRaise ==
  /\ pc = "get_ffmpeg"
  /\ Raise
  /\ UNCHANGED <<argv, datapack_name, probed, target, fs, zips, pngs, i, todo,
                 runs>>

\* extract_frames_and_scale, lines 133-134
ExtractRmtree ==
  /\ pc = "rmtree"
  /\ fs' = IF FramesDir \in DOMAIN fs THEN RmTree(fs, FramesDir) ELSE fs
  /\ pc' = "makedirs"
  /\ UNCHANGED <<argv, datapack_name, probed, target, zips, pngs, i, todo,
                 exit, stdout, runs>>

\* line 135
ExtractMakedirs ==
  /\ pc = "makedirs"
  /\ fs' = MakeDirs(fs, FramesDir)
  /\ pc' = "probe"
  /\ UNCHANGED <<argv, datapack_name, probed, target, zips, pngs, i, todo,
                 exit, stdout, runs>>

\* line 137
ExtractProbe ==
  /\ pc = "probe"
  /\ probed' = ProbeVideo(argv[1])
  /\ pc' = "scale"
  /\ UNCHANGED <<argv, datapack_name, target, fs, zips, pngs, i, todo,
                 exit, stdout, runs>>

\* lines 139-153: the guard, the target size and the decoder command
ExtractScale ==
  /\ pc = "scale"
  /\ target' = ComputeScale(probed)
  /\ IF target'.err # ""
       THEN Raise
       ELSE pc' = "ffmpeg" /\ stdout' = Append(stdout, "cmd") /\ UNCHANGED exit
  /\ i' = 0
  /\ UNCHANGED <<argv, datapack_name, probed, fs, zips, pngs, todo, runs>>

\* line 154, the decoder writing its next numbered image
FfmpegFrame ==
  /\ pc = "ffmpeg"
  /\ i < argv[1].n
  /\ fs' = Put(fs, Append(FramesDir, FrameName(i + 1)),
               File(PngData(argv[1].n, i + 1, target, "RGB")))
  /\ i' = i + 1
  /\ UNCHANGED <<pc, argv, datapack_name, probed, target, zips, pngs, todo,
                 exit, stdout, runs>>

\* the decoder exits with status 0 after the last frame
FfmpegExit ==
  /\ pc = "ffmpeg"
  /\ i = argv[1].n
  /\ pc' = "post_glob"
  /\ UNCHANGED <<argv, datapack_name, probed, target, fs, zips, pngs, i, todo,
                 exit, stdout, runs>>

\* subprocess.run without check=True: the status is ignored
DecoderFailureIgnored ==
  /\ pc' = "post_glob"
  /\ UNCHANGED <<exit, stdout>>

\* what a non-zero exit status of the decoder does (check=True)
DecoderFailure == Raise

\* the decoder exits with a non-zero status
FfmpegFail ==
  /\ pc = "ffmpeg"
  /\ DecoderFailure
  /\ UNCHANGED <<argv, datapack_name, probed, target, fs, zips, pngs, i, todo,
                 runs>>

\* post_process_images, line 158
PostGlob ==
  /\ pc = "post_glob"
  /\ pngs' = Sorted(Glob(fs, FramesDir, ".png"))
  /\ i' = 0
  /\ pc' = IF pngs' = <<>> THEN "build_glob" ELSE "post"
  /\ UNCHANGED <<argv, datapack_name, probed, target, fs, zips, todo,
                 exit, stdout, runs>>

\* lines 159-163, one image
PostImage ==
  /\ pc = "post"
  /\ fs' = Put(fs, pngs[i + 1], File(ConvertRGBA(fs[pngs[i + 1]].data)))
  /\ i' = i + 1
  /\ pc' = IF i' < Len(pngs) THEN "post" ELSE "build_glob"
  /\ UNCHANGED <<argv, datapack_name, probed, target, zips, pngs, todo,
                 exit, stdout, runs>>

\* an image that fails to decode or to be saved
PostImageFail ==
  /\ pc = "post"
  /\ Raise
  /\ UNCHANGED <<argv, datapack_name, probed, target, fs, zips, pngs, i, todo,
                 runs>>

\* the directories created before the list of images is looked at
BuildGlobDirsFirst ==
  /\ pc = "build_glob"
  /\ pngs' = Sorted(Glob(fs, FramesDir, ".png"))
  /\ i' = 0
  /\ fs' = MakeDirs(MakeDirs(fs, ImgDir), FuncDir(datapack_name))
  /\ IF pngs' = <<>>
       THEN pc' = "main_done" /\ stdout' = Append(stdout, "no frames")
       ELSE pc' = "build_dirs" /\ UNCHANGED stdout
  /\ UNCHANGED <<argv, datapack_name, probed, target, zips, todo, exit, runs>>

\* build_datapack, lines 167-170
BuildGlob ==
  /\ pc = "build_glob"
  /\ pngs' = Sorted(Glob(fs, FramesDir, ".png"))
  /\ i' = 0
  /\ IF pngs' = <<>>
       THEN pc' = "main_done" /\ stdout' = Append(stdout, "no frames")
       ELSE pc' = "build_dirs" /\ UNCHANGED stdout
  /\ UNCHANGED <<argv, datapack_name, probed, target, fs, zips, todo, exit, runs>>

\* lines 173-177
BuildDirs ==
  /\ pc = "build_dirs"
  /\ fs' = MakeDirs(MakeDirs(fs, ImgDir), FuncDir(datapack_name))
  /\ pc' = "meta"
  /\ UNCHANGED <<argv, datapack_name, probed, target, zips, pngs, i, todo,
                 exit, stdout, runs>>

\* lines 180-187, pack.mcmeta
WriteMeta ==
  /\ pc = "meta"
  /\ LET p == Append(DpRoot(datapack_name), Seg("pack", <<>>, ".mcmeta"))
     IN fs' = WriteData(OpenForWrite(fs, p), p, MetaData(datapack_name))
  /\ pc' = "main_fn"
  /\ UNCHANGED <<argv, datapack_name, probed, target, zips, pngs, i, todo,
                 exit, stdout, runs>>

\* lines 190-191, main.mcfunction
WriteMain ==
  /\ pc = "main_fn"
  /\ LET p == Append(FuncDir(datapack_name), Seg("main", <<>>, ".mcfunction"))
     IN fs' = WriteData(OpenForWrite(fs, p), p, MainData(datapack_name))
  /\ pc' = "copy"
  /\ i' = 0
  /\ UNCHANGED <<argv, datapack_name, probed, target, zips, pngs, todo,
                 exit, stdout, runs>>

\* lines 195-197, shutil.copy2 of the i-th image
CopyImage ==
  /\ pc = "copy"
  /\ fs' = Put(fs, Append(ImgDir, Basename(pngs[i + 1])), fs[pngs[i + 1]])
  /\ pc' = "open_script"
  /\ UNCHANGED <<argv, datapack_name, probed, target, zips, pngs, i, todo,
                 exit, stdout, runs>>

\* lines 199-200, open(mcpath, 'w')
OpenScript ==
  /\ pc = "open_script"
  /\ fs' = OpenForWrite(fs, Append(FuncDir(datapack_name), ScriptName(i)))
  /\ pc' = "write_script"
  /\ UNCHANGED <<argv, datapack_name, probed, target, zips, pngs, i, todo,
                 exit, stdout, runs>>

\* lines 203-208, the two writes and the close
WriteScript ==
  /\ pc = "write_script"
  /\ fs' = WriteData(fs, Append(FuncDir(datapack_name), ScriptName(i)),
                     ScriptData(datapack_name, Basename(pngs[i + 1]), i, Len(pngs)))
  /\ i' = i + 1
  /\ pc' = IF i' < Len(pngs) THEN "copy" ELSE "zip_remove"
  /\ UNCHANGED <<argv, datapack_name, probed, target, zips, pngs, todo,
                 exit, stdout, runs>>

\* a copy, an open or a write of the loop raising OSError
AssembleFail ==
  /\ pc \in {"copy", "open_script", "write_script"}
  /\ Raise
  /\ UNCHANGED <<argv, datapack_name, probed, target, fs, zips, pngs, i, todo,
                 runs>>

\* lines 211-213
ZipRemove ==
  /\ pc = "zip_remove"
  /\ zips' = [zips EXCEPT ![datapack_name] = NoZip]
  /\ pc' = "zip_open"
  /\ UNCHANGED <<argv, datapack_name, probed, target, fs, pngs, i, todo,
                 exit, stdout, runs>>

\* lines 214-215: ZipFile(zipname, 'w') and the start of os.walk
ZipOpen ==
  /\ pc = "zip_open"
  /\ zips' = [zips EXCEPT ![datapack_name] = NewZip]
  /\ todo' = Walk(fs, DpRoot(datapack_name))
  /\ pc' = "zip_write"
  /\ UNCHANGED <<argv, datapack_name, probed, target, fs, pngs, i,
                 exit, stdout, runs>>

\* lines 216-219, one file, in the order the directory listing gives;
\* after the last one the archive is closed and lines 221-224 print.
ZipWrite ==
  /\ pc = "zip_write"
  /\ \E absf \in todo :
       /\ zips' = [zips EXCEPT ![datapack_name] =
                     ZipAdd(@, Entry(RelPath(absf, DpRoot(datapack_name)),
                                     fs[absf].data))]
       /\ todo' = todo \ {absf}
  /\ IF todo' = {}
       THEN pc' = "main_done" /\ stdout' = Append(stdout, "generated")
       ELSE UNCHANGED <<pc, stdout>>
  /\ UNCHANGED <<argv, datapack_name, probed, target, fs, pngs, i, exit, runs>>

\* main, line 243, and the normal end of the process
MainDone ==
  /\ pc = "main_done"
  /\ stdout' = Append(stdout, "done")
  /\ exit' = "0"
  /\ pc' = "exited"
  /\ UNCHANGED <<argv, datapack_name, probed, target, fs, zips, pngs, i, todo,
                 runs>>

Step ==
  \/ GetFfmpegOk \/ GetFfmpegRaise
  \/ ExtractRmtree \/ ExtractMakedirs \/ ExtractProbe \/ ExtractScale
  \/ FfmpegFrame \/ FfmpegExit \/ FfmpegFail
  \/ PostGlob \/ PostImage \/ PostImageFail
  \/ BuildGlob \/ BuildDirs \/ WriteMeta \/ WriteMain
  \/ CopyImage \/ OpenScript \/ WriteScript \/ AssembleFail
  \/ ZipRemove \/ ZipOpen \/ ZipWrite
  \/ MainDone

Next == Main \/ Step

Spec == Init /\ [][Next]_vars

(***************************************************************************)
(* The scale computation alone, over a grid of probed resolutions.         *)
(***************************************************************************)
InitScale ==
  /\ pc = "scale"
  /\ argv = <<[isfile |-> TRUE, n |-> 0]>>
  /\ datapack_name = DEFAULT_DATAPACK_NAME
  /\ probed \in Resolutions
  /\ target = NoScale
  /\ pngs = <<>>
  /\ i = 0
  /\ todo = {}
  /\ fs = MakeDirs(EmptyFS, FramesDir)
  /\ zips = [name \in Namespaces |-> NoZip]
  /\ exit = "running"
  /\ stdout = <<"ffmpeg">>
  /\ runs = 1

NextScale == ExtractScale

SpecScale == InitScale /\ [][NextScale]_vars

(***************************************************************************)
(* Interrupted runs: the process may be killed after any step and is then  *)
(* started again with the same command line, from a clean directory.       *)
(***************************************************************************)
InitClean ==
  /\ Init
  /\ zips = [name \in Namespaces |-> NoZip]

StartRun ==
  /\ pc = "idle"
  /\ \E args \in Args : Len(args) >= 1 /\ args[1].isfile /\ MainBody(args)

Rerun ==
  /\ pc = "exited"
  /\ exit \in {"killed", "1"}
  /\ runs < MaxRuns
  /\ MainBody(argv)

Kill ==
  /\ Running
  /\ pc' = "exited"
  /\ exit' = "killed"
  /\ UNCHANGED <<argv, datapack_name, probed, target, fs, zips, pngs, i, todo,
                 stdout, runs>>

NextRecover == StartRun \/ Rerun \/ Kill \/ Step

SpecRecover == InitClean /\ [][NextRecover]_vars

(***************************************************************************)
(* Properties.                                                             *)
(***************************************************************************)
Succeeded == pc = "exited" /\ exit = "0"
Printed(msg) == \E k \in 1..Len(stdout) : stdout[k] = msg
ScriptPath(name, idx) == Append(FuncDir(name), ScriptName(idx))
MainPath(name) == Append(FuncDir(name), Seg("main", <<>>, ".mcfunction"))
FramePath(k) == Append(FramesDir, FrameName(k))
ImagePath(k) == Append(ImgDir, FrameName(k))
\* the numbered script files present in the functions directory
FrameScriptFiles(name) ==
  {p \in DOMAIN fs : /\ Len(p) = Len(FuncDir(name)) + 1
                     /\ IsPrefix(FuncDir(name), p)
                     /\ Basename(p)[2] # <<>>}
ScheduleLines(data) == {k \in 1..Len(data) : data[k].op = "schedule function"}
RenderLines(data) == {k \in 1..Len(data) : data[k].op = "particleex image"}

\* The game's side: a function <ns>:<name> is the file
\* data/<ns>/functions/<name>.mcfunction of the pack; "function" runs it in
\* the same tick, "schedule function ... <d>t" runs it d ticks later.
FunctionFile(root, ns, name) ==
  root \o <<DirSeg("data"), DirSeg(ns), DirSeg("functions"),
            Seg(name[1], name[2], ".mcfunction")>>

RECURSIVE PlayLines(_, _, _, _)
PlayLines(root, lines, tick, fuel) ==
  IF lines = <<>> \/ fuel = 0 THEN <<>>
  ELSE LET ln   == Head(lines)
           file == FunctionFile(root, ln.ns, ln.name)
           at   == IF ln.op = "schedule function" THEN tick + ln.nums[1] ELSE tick
           call == IF ln.op \in {"function", "schedule function"} /\ file \in DOMAIN fs
                     THEN <<[tick |-> at, file |-> file]>>
                            \o PlayLines(root, fs[file].data, at, fuel - 1)
                     ELSE <<>>
       IN call \o PlayLines(root, Tail(lines), tick, fuel)

Playback(name) ==
  PlayLines(DpRoot(name), fs[MainPath(name)].data, 0, MaxFrames + 2)

\* C1: after a successful run on N >= 1 frames, invoking main once executes
\* the frame scripts 0..N-1 in index order, each exactly once, script k at
\* tick k, and nothing else.
PlaybackInOrder ==
  (Succeeded /\ pngs # <<>>) =>
     Playback(datapack_name) =
       [k \in 1..Len(pngs) |->
          [tick |-> k - 1, file |-> ScriptPath(datapack_name, k - 1)]]

\* C2: a successful build on N >= 1 frames has written the N scripts 0..N-1;
\* script k has exactly one scheduling line, naming index k+1, if k+1 < N and
\* none otherwise, so N-1 in total; on a fresh directory these are the only
\* frame scripts.
ScriptChain ==
  (Succeeded /\ pngs # <<>>) =>
     LET N == Len(pngs)
         data(k) == fs[ScriptPath(datapack_name, k)].data
     IN /\ i = N
        /\ \A k \in 0..(N - 1) :
             /\ ScriptPath(datapack_name, k) \in DOMAIN fs
             /\ Cardinality(RenderLines(data(k))) = 1
             /\ Cardinality(ScheduleLines(data(k))) = (IF k + 1 < N THEN 1 ELSE 0)
             /\ \A j \in ScheduleLines(data(k)) :
                  data(k)[j].name = FrameFunc(k + 1) /\ data(k)[j].ns = datapack_name
        /\ Cardinality({<<k, j>> \in (0..(N - 1)) \X (1..2) :
                          /\ j <= Len(data(k))
                          /\ data(k)[j].op = "schedule function"}) = N - 1
        /\ runs = 1 =>
             FrameScriptFiles(datapack_name) =
               {ScriptPath(datapack_name, k) : k \in 0..(N - 1)}

ScriptChainWitness ==
  Succeeded /\ Len(pngs) >= 2 /\ runs = 1

\* C3: a run that found no frame image ends with a non-zero exit status.
EmptyFramesExitNonZero ==
  (pc = "exited" /\ Printed("no frames")) => exit # "0"

\* C4: from the moment build_datapack finds no image until the process ends,
\* no step changes the file system or any archive.
EmptyBuildWritesNothing ==
  [][((pc = "build_glob" /\ Glob(fs, FramesDir, ".png") = {})
        \/ (pc = "main_done" /\ pngs = <<>>))
       => (fs' = fs /\ zips' = zips)]_vars

EmptyBuildWitness ==
  /\ pc = "main_done"
  /\ pngs = <<>>
  /\ Printed("no frames")
  /\ ImgDir \notin DOMAIN fs
  /\ DpRoot(datapack_name) \notin DOMAIN fs

\* C5: after a successful run on N >= 1 frames the frame scripts under the
\* package root, and those in the archive, are exactly scripts 0..N-1.
OnlyLatestScripts ==
  (Succeeded /\ pngs # <<>>) =>
     LET N == Len(pngs)
     IN /\ FrameScriptFiles(datapack_name) =
             {ScriptPath(datapack_name, k) : k \in 0..(N - 1)}
        /\ {e \in BagToSet(zips[datapack_name].entries) :
              Basename(e.arcname)[2] # <<>>}
             = {Entry(SubSeq(ScriptPath(datapack_name, k), 2, 5),
                      fs[ScriptPath(datapack_name, k)].data) : k \in 0..(N - 1)}

\* the resolution the height is computed from
Guarded(res) ==
  IF res[1] <= 0 \/ res[2] <= 0 THEN <<1920, 1080>> ELSE res
\* h * 640 / w rounded to the nearest integer, halves to even (Python round)
RoundedQuotient(num, den) ==
  LET q == num \div den
      r == num % den
  IN IF 2 * r > den \/ (2 * r = den /\ q % 2 = 1) THEN q + 1 ELSE q

\* C6 as stated: target height = max(1, round(h' * 640 / w')).
ScaleRounds ==
  pc # "scale" =>
     LET g == Guarded(probed)
     IN target.err = "" /\ target.h = Max(1, RoundedQuotient(g[2] * 640, g[1]))

\* C6 amended: the quotient is truncated, not rounded, and is computed in
\* double precision: the target height is max(1, floor(h' * 640 / w')) when
\* h' * 640 / w' is not an integer, and that integer or one less (never
\* below 1) when it is; (1920, 1080) and every degenerate resolution give
\* 360; the width is 640 and no division by zero occurs.
ScaleTruncates ==
  pc # "scale" =>
     LET g  == Guarded(probed)
         q  == (g[2] * 640) \div g[1]
         r  == (g[2] * 640) % g[1]
     IN /\ pc = "ffmpeg"
        /\ target.err = ""
        /\ target.w = 640
        /\ target.h >= 1
        /\ r # 0 => target.h = Max(1, q)
        /\ r = 0 => target.h \in {Max(1, q), Max(1, q - 1)}
        /\ probed = <<1920, 1080>> => target.h = 360
        /\ (probed[1] <= 0 \/ probed[2] <= 0) => target.h = 360

\* a resolution whose rounded height differs from the computed one
ScaleTruncatesWitness ==
  pc = "ffmpeg" /\ probed = <<3, 2>> /\ target.h = 426

\* C7: after a successful run on N >= 1 frames the archive holds one entry
\* per file under the package root, with that file's contents, under the
\* file's path relative to the root, and nothing else: no entry of an older
\* archive, no path that starts with the root segment.
ArchiveMirrorsTree ==
  (Succeeded /\ pngs # <<>>) =>
     LET root  == <<DirSeg(datapack_name)>>
         z     == zips[datapack_name]
         files == {p \in DOMAIN fs : /\ Len(p) > 1
                                     /\ p[1] = DirSeg(datapack_name)
                                     /\ fs[p].kind = "file"}
     IN /\ z.exists
        /\ \A e \in BagToSet(z.entries) :
             /\ CopiesIn(e, z.entries) = 1
             /\ e.arcname # <<>>
             /\ e.arcname[1] # DirSeg(datapack_name)
             /\ (root \o e.arcname) \in files
             /\ e.data = fs[root \o e.arcname].data
        /\ \A p \in files :
             Cardinality({e \in BagToSet(z.entries) : root \o e.arcname = p}) = 1
        /\ ~BagIn(ForeignEntry, z.entries)

ArchiveMirrorsTreeWitness ==
  /\ Succeeded
  /\ Len(pngs) >= 2
  /\ runs >= 2
  /\ BagCardinality(zips[datapack_name].entries) >= 4

\* C8: the stages run in order and a failure ends the run.  A step that
\* converts an extracted image happens only once all frames of the video are
\* extracted; a step that writes to the image directory or the package tree
\* only once all of them are converted; a step that touches an archive only
\* once every image is copied and every script written; and after an
\* exception no step changes any file.
Frames == Glob(fs, FramesDir, ".png")
ExtractComplete ==
  Frames = {FramePath(k) : k \in 1..argv[1].n}
PostComplete ==
  /\ ExtractComplete
  /\ \A p \in Frames : \A k \in 1..Len(fs[p].data) : fs[p].data[k].ns = "RGBA"
AssembleComplete ==
  /\ PostComplete
  /\ \A k \in 1..argv[1].n :
       /\ ImagePath(k) \in DOMAIN fs
       /\ fs[ImagePath(k)] = fs[FramePath(k)]
       /\ ScriptPath(datapack_name, k - 1) \in DOMAIN fs
       /\ fs[ScriptPath(datapack_name, k - 1)].data # <<>>
Outside(f, roots) ==
  [p \in {q \in DOMAIN f : \A r \in roots : ~IsPrefix(r, q)} |-> f[p]]
PostStep ==
  \E p \in Frames : p \in DOMAIN fs' /\ fs'[p] # fs[p]
AssembleStep ==
  Outside(fs', {FramesDir}) # Outside(fs, {FramesDir})

StagesInOrder ==
  [][/\ PostStep => ExtractComplete
     /\ AssembleStep => PostComplete /\ argv[1].n >= 1
     /\ zips' # zips => AssembleComplete
     /\ exit = "1" => (fs' = fs /\ zips' = zips)
     /\ (exit' = "1" /\ Running) => (fs' = fs /\ zips' = zips /\ pc' = "exited")]_vars

StagesInOrderWitness ==
  /\ pc = "exited"
  /\ exit = "1"
  /\ Printed("cmd")
  /\ Frames # {}
  /\ runs = 1
  /\ ~zips[datapack_name].exists

\* What one uninterrupted run on video v under the name `name` leaves in an
\* empty working directory.
CleanImage(v, k) ==
  LET sc == ComputeScale(ProbeVideo(v))
  IN File(<<Line("png", "RGBA", NoSeg, <<v.n, k, sc.w, sc.h>>)>>)
CleanScript(name, k, n) ==
  File(<<Line("particleex image", "", FrameName(k + 1), <<LIFETIME_TICK>>)>>
         \o (IF k + 1 < n
               THEN <<Line("schedule function", name, Seg("frame", Digits(k + 1), ""), <<1>>)>>
               ELSE <<>>))
CleanPackage(v, name) ==
  (<<DirSeg(name), Seg("pack", <<>>, ".mcmeta")>>
     :> File(<<Line("pack", name, NoSeg, <<6>>)>>))
  @@ (MainPath(name)
     :> File(<<Line("function", name, Seg("frame", <<0>>, ""), <<>>)>>))
  @@ [p \in {ScriptPath(name, k) : k \in 0..(v.n - 1)} |->
        CleanScript(name, CHOOSE k \in 0..(v.n - 1) : ScriptPath(name, k) = p, v.n)]
CleanFS(v, name) ==
  (FramesDir :> Dir)
  @@ [p \in {FramePath(k) : k \in 1..v.n} |->
        CleanImage(v, CHOOSE k \in 1..v.n : FramePath(k) = p)]
  @@ (IF v.n = 0 THEN EmptyFS
      ELSE (ImgDir :> Dir)
           @@ [p \in {ImagePath(k) : k \in 1..v.n} |->
                 CleanImage(v, CHOOSE k \in 1..v.n : ImagePath(k) = p)]
           @@ [p \in {SubSeq(FuncDir(name), 1, k) : k \in 1..4} |-> Dir]
           @@ CleanPackage(v, name))
CleanZips(v, name) ==
  [z \in Namespaces |->
     IF z = name /\ v.n >= 1
       THEN [exists |-> TRUE,
             entries |-> SetToBag({Entry(Tail(p), CleanPackage(v, name)[p].data) :
                                     p \in DOMAIN CleanPackage(v, name)})]
       ELSE NoZip]

\* C9: whatever steps earlier, interrupted runs of the same command reached,
\* a run that then completes leaves the frames directory, the copied images,
\* the package tree and the archive exactly as one uninterrupted run from a
\* clean directory does.
RerunEqualsCleanRun ==
  Succeeded =>
     /\ fs = CleanFS(argv[1], datapack_name)
     /\ zips = CleanZips(argv[1], datapack_name)

RerunEqualsCleanRunWitness ==
  Succeeded /\ runs >= 2 /\ argv[1].n >= 2

\* C10: with the decoder numbering its images 1..N, script k renders image
\* k+1: every script written so far names the image FrameName(k+1), which is
\* an extracted frame already copied to the image directory; the copy is
\* there when the script is about to be written; and at the end the N
\* scripts render the N extracted images one to one.
ScriptsWritten ==
  IF pc \in {"copy", "open_script", "write_script"} THEN i
  ELSE IF pc \in {"zip_remove", "zip_open", "zip_write", "main_done"} \/ Succeeded
    THEN Len(pngs)
  ELSE 0
RenderedImage(k) ==
  LET data == fs[ScriptPath(datapack_name, k)].data
  IN {data[j].name : j \in RenderLines(data)}

ScriptRendersNextNumber ==
  /\ \A k \in 0..(ScriptsWritten - 1) :
       /\ RenderedImage(k) = {FrameName(k + 1)}
       /\ FramePath(k + 1) \in DOMAIN fs
       /\ ImagePath(k + 1) \in DOMAIN fs
       /\ fs[ImagePath(k + 1)] = fs[FramePath(k + 1)]
  /\ pc = "write_script" =>
       /\ Basename(pngs[i + 1]) = FrameName(i + 1)
       /\ ImagePath(i + 1) \in DOMAIN fs
       /\ fs[ImagePath(i + 1)] = fs[FramePath(i + 1)]
  /\ (Succeeded /\ pngs # <<>>) =>
       /\ UNION {RenderedImage(k) : k \in 0..(Len(pngs) - 1)}
            = {Basename(p) : p \in Frames}
       /\ Cardinality(Frames) = Len(pngs)
       /\ Len(pngs) = argv[1].n

ScriptRendersNextNumberWitness ==
  pc = "write_script" /\ i = 1 /\ Len(pngs) >= 2

====
